---- MODULE Spec2Model ----
(***************************************************************************)
(* A model of the conversation-history manager and the token tracker of    *)
(* the learning assistant (src/src/core/ConversationManager.js), with the  *)
(* cost calculator (src/utils/cost-calculator.js) and the price table      *)
(* (config.js) they rest on.                                               *)
(*                                                                         *)
(* JavaScript objects live in a heap: the manager's `messages` array holds *)
(* references, and so does the array getFullHistory() hands out.           *)
(***************************************************************************)
EXTENDS Integers, Sequences, FiniteSets, TLC

VARIABLES
    messages,          \* ConversationManager.messages: an array of object references
    heap,              \* reference -> message object {role, content, timestamp}
    nextRef,           \* the next object reference to allocate
    systemPrompt,      \* ConversationManager.systemPrompt
    maxHistoryTokens,  \* ConversationManager.maxHistoryTokens
    now,               \* the clock Date.now() reads
    lastCall,          \* the last step taken: the call's name, argument, outcome
    returned,          \* the array a caller holds from getFullHistory()
    pc,                \* position inside _trimHistoryIfNeeded (step-wise specification)
    trimEntry,         \* the messages array as it was when _trimHistoryIfNeeded was entered
    defaultModel,      \* Config.DEFAULT_MODEL
    budget,            \* TokenTracker.budget
    usage,             \* TokenTracker.usage
    costLog,           \* the records addUsage returned since construction or the last reset
    appPc,             \* the application: "menu", "session" (awaiting input) or "inFlight";
                       \* "constructed" for a feature that is not initialized
    attempt,           \* ClaudeClient: the attempt number of the request in flight, 0 when none
    trips,             \* the chat round trips that have ended, with the usage each returned
    saved,             \* the session records _endSession handed to saveSession
    historyFile,       \* HistoryManager: the records in history.json
    saveCalls,         \* HistoryManager: the saveSession calls started, each with its position
    client             \* ClaudeClient: maxRetries and the sendMessage call in progress

convVars == <<messages, heap, nextRef, systemPrompt, maxHistoryTokens, now, returned>>
loopVars == <<pc, trimEntry>>
trackerVars == <<defaultModel, budget, usage, costLog>>
storeVars == <<historyFile, saveCalls>>
appVars == <<appPc, attempt, trips, saved, historyFile, saveCalls, client>>
vars == <<messages, heap, nextRef, systemPrompt, maxHistoryTokens, now, lastCall,
          returned, pc, trimEntry, defaultModel, budget, usage, costLog,
          appPc, attempt, trips, saved, historyFile, saveCalls, client>>

(***************************************************************************)
(* Bounds of the model.                                                    *)
(***************************************************************************)
MaxAppends == 3        \* objects allocated (messages appended) in one behaviour
MaxClock == 1          \* the clock runs over 0..MaxClock
MaxLimit == 3          \* explicit maxHistoryTokens options are 1..MaxLimit
MaxLoopAppends == 4    \* messages appended in the step-wise specification of the loop
MaxCalls == 3          \* addUsage calls between two resets

(***************************************************************************)
(* JavaScript values: a string, a number (NaN included), undefined, null.  *)
(***************************************************************************)
JsStr(s) == [type |-> "string", s |-> s, n |-> 0, nan |-> FALSE]
JsNum(k) == [type |-> "number", s |-> "", n |-> k, nan |-> FALSE]
JsNaN == [type |-> "number", s |-> "", n |-> 0, nan |-> TRUE]
JsUndefined == [type |-> "undefined", s |-> "", n |-> 0, nan |-> FALSE]
JsNull == [type |-> "null", s |-> "", n |-> 0, nan |-> FALSE]

\* a + b on numbers: NaN is contagious
JsAdd(a, b) == IF a.nan \/ b.nan THEN JsNaN ELSE JsNum(a.n + b.n)
\* a > b and a <= b on numbers: every comparison with NaN is false
JsGt(a, b) == ~a.nan /\ ~b.nan /\ a.n > b.n
JsLe(a, b) == ~a.nan /\ ~b.nan /\ a.n <= b.n

\* MessageRole
RoleSystem == "system"
RoleUser == "user"
RoleAssistant == "assistant"

DEFAULT_MAX_HISTORY_TOKENS == 100000

(***************************************************************************)
(* The inputs the operations are called with.                              *)
(***************************************************************************)
\* message texts of 0, 1 and 7 characters: 0, 1 and 3 estimated tokens
StringContents == {JsStr(""), JsStr("a"), JsStr("abcdefg")}
\* what an untyped caller can pass besides
NonStringContents == {JsUndefined, JsNull, JsNum(42)}
\* system prompts of 0, 3 and 13 characters: unset, 1 and 5 estimated tokens
Prompts == {"", "sys", "system prompt"}
\* options.maxHistoryTokens: 0 stands for an omitted option
LimitOptions == 0..MaxLimit

(***************************************************************************)
(* _estimateTokens(text): Math.ceil(text.length / 3).  text.length throws  *)
(* a TypeError on undefined and null, and is undefined on a number, which  *)
(* makes the quotient NaN.                                                 *)
(***************************************************************************)
LengthThrows(text) == text.type \in {"undefined", "null"}

_estimateTokens(text) ==
    IF text.type = "string" THEN JsNum((Len(text.s) + 2) \div 3) ELSE JsNaN

\* the message objects of an array of references, in order
Deref(h, msgs) == [i \in 1..Len(msgs) |-> h[msgs[i]]]

RECURSIVE SumTokens(_, _)
SumTokens(objs, total) ==
    IF objs = <<>> THEN total
    ELSE SumTokens(Tail(objs), JsAdd(total, _estimateTokens(Head(objs).content)))

\* _calculateTotalTokens(): the system prompt when it is truthy, then every message
_calculateTotalTokens(prompt, objs) ==
    SumTokens(objs, IF prompt # "" THEN _estimateTokens(JsStr(prompt)) ELSE JsNum(0))

\* _calculateTotalTokens() throws when some stored content has no length
TotalThrows(objs) == \E i \in 1..Len(objs) : LengthThrows(objs[i].content)

\* messages.splice(0, 2)
Splice02(msgs) == SubSeq(msgs, 3, Len(msgs))

\* a trimming loop that stops one message too early (length >= 3 for length >= 2)
RECURSIVE TrimLoopStopsEarly(_, _, _, _)
TrimLoopStopsEarly(prompt, h, msgs, limit) ==
    IF JsGt(_calculateTotalTokens(prompt, Deref(h, msgs)), JsNum(limit)) /\ Len(msgs) >= 3
    THEN TrimLoopStopsEarly(prompt, h, Splice02(msgs), limit)
    ELSE msgs

\* the while loop of _trimHistoryIfNeeded
RECURSIVE TrimLoop(_, _, _, _)
TrimLoop(prompt, h, msgs, limit) ==
    IF JsGt(_calculateTotalTokens(prompt, Deref(h, msgs)), JsNum(limit)) /\ Len(msgs) >= 2
    THEN TrimLoop(prompt, h, Splice02(msgs), limit)
    ELSE msgs

\* _trimHistoryIfNeeded(): the messages array it leaves (when nothing throws)
_trimHistoryIfNeeded(prompt, h, msgs, limit) ==
    IF JsLe(_calculateTotalTokens(prompt, Deref(h, msgs)), JsNum(limit))
    THEN msgs
    ELSE TrimLoop(prompt, h, msgs, limit)

\* objects no array refers to any more are collected
Collect(h, roots) == [r \in {x \in DOMAIN h : x \in roots} |-> h[r]]
Range(s) == {s[i] : i \in 1..Len(s)}

\* a step: the call made, its argument, the object it allocated, the messages its
\* trimming removed, whether it threw
Call(op, arg, ref, removed, threw) ==
    [op |-> op, arg |-> arg, ref |-> ref, removed |-> removed, threw |-> threw]

(***************************************************************************)
(* The state after construction.                                           *)
(***************************************************************************)
\* new ConversationManager({systemPrompt, maxHistoryTokens})
ConvInit(promptOption, limitOption) ==
    /\ messages = <<>>
    /\ heap = <<>>
    /\ nextRef = 1
    /\ systemPrompt = promptOption
    /\ maxHistoryTokens = IF limitOption # 0 THEN limitOption ELSE DEFAULT_MAX_HISTORY_TOKENS
    /\ now = 0
    /\ returned = [held |-> FALSE, arr |-> <<>>]

LoopIdle ==
    /\ pc = "idle"
    /\ trimEntry = <<>>

DefaultMaxRetries == 3

\* new ClaudeClient({maxRetries}): this.maxRetries = options.maxRetries || 3, an
\* absent option is 0 here; no sendMessage call has been made
newClaudeClient(maxRetriesOption) ==
    [maxRetries |-> IF maxRetriesOption # 0 THEN maxRetriesOption ELSE DefaultMaxRetries,
     pc |-> "idle", attempt |-> 0, attempts |-> <<>>, waits |-> <<>>, result |-> "none"]

\* no application running: no session, no request, nothing saved
AppIdle ==
    /\ client = newClaudeClient(0)
    /\ appPc = "menu"
    /\ attempt = 0
    /\ trips = <<>>
    /\ saved = <<>>
    /\ historyFile = <<>>
    /\ saveCalls = <<>>

(***************************************************************************)
(* Config and the cost calculator.  Money is counted in units of 1/20 of a *)
(* millionth of a dollar: every price of the table (dollars per million    *)
(* tokens) is a multiple of 0.05, so tokens * (price * 20) is the cost in  *)
(* these units, exactly.                                                   *)
(***************************************************************************)
UnitsPerDollar == 20000000
DEFAULT_MODEL_NAME == "claude-3-5-sonnet-20241022"
\* Config.DAILY_BUDGET when the environment sets none: 0.50 dollars
DefaultDailyBudget == UnitsPerDollar \div 2

\* the model identifiers of the model; the first three start with "GLM"
GlmNamed == {"GLM-4.7", "GLM-4", "GLM-3-turbo"}
ModelIds == GlmNamed \cup {"claude-3-5-sonnet-20241022", "claude-3-opus-20240229",
                           "claude-3-haiku-20240307", "invalid-model-name"}
\* model.startsWith('GLM')
StartsWithGLM(model) == model \in GlmNamed

\* glmPrices and claudePrices, times 20
glmPrices ==
    [m \in {"GLM-4.7", "GLM-4"} |->
        IF m = "GLM-4.7" THEN [input |-> 10, output |-> 10] ELSE [input |-> 2, output |-> 2]]

claudePrices ==
    [m \in {"claude-3-5-sonnet-20241022", "claude-3-opus-20240229", "claude-3-haiku-20240307"} |->
        CASE m = "claude-3-5-sonnet-20241022" -> [input |-> 60, output |-> 300]
          [] m = "claude-3-opus-20240229" -> [input |-> 300, output |-> 1500]
          [] m = "claude-3-haiku-20240307" -> [input |-> 5, output |-> 25]]

\* a lookup that falls back, for every unlisted id, to the configured DEFAULT_MODEL
getModelPricesConfiguredFallback(model) ==
    IF model \in DOMAIN glmPrices THEN glmPrices[model]
    ELSE IF model \in DOMAIN claudePrices THEN claudePrices[model]
    ELSE IF defaultModel \in DOMAIN glmPrices THEN glmPrices[defaultModel]
    ELSE claudePrices[defaultModel]

\* Config.getModelPrices(model)
getModelPrices(model) ==
    IF StartsWithGLM(model)
    THEN IF model \in DOMAIN glmPrices THEN glmPrices[model] ELSE glmPrices["GLM-4.7"]
    ELSE IF model \in DOMAIN claudePrices THEN claudePrices[model]
         ELSE claudePrices[DEFAULT_MODEL_NAME]

\* a validation that lets negative counts through
InvalidTokensMissesNegative(t) == t.type # "number" \/ t.nan

\* a validation that lets NaN through
InvalidTokensMissesNaN(t) == t.type # "number" \/ t.n < 0

\* the argument check of calculateCost
InvalidTokens(t) == t.type # "number" \/ t.nan \/ t.n < 0
CostThrows(inputTokens, outputTokens) ==
    InvalidTokens(inputTokens) \/ InvalidTokens(outputTokens)

\* a calculateCost that charges the output tokens at the input price
calculateCostOutputAtInputPrice(inputTokens, outputTokens, model) ==
    LET prices == getModelPrices(model)
        inputCost == inputTokens.n * prices.input
        outputCost == outputTokens.n * prices.input
    IN [inputCost |-> inputCost,
        outputCost |-> outputCost,
        totalCost |-> inputCost + outputCost,
        inputTokens |-> inputTokens.n,
        outputTokens |-> outputTokens.n,
        totalTokens |-> inputTokens.n + outputTokens.n]

\* calculateCost(inputTokens, outputTokens, model), when it does not throw
calculateCost(inputTokens, outputTokens, model) ==
    LET prices == getModelPrices(model)
        inputCost == inputTokens.n * prices.input
        outputCost == outputTokens.n * prices.output
    IN [inputCost |-> inputCost,
        outputCost |-> outputCost,
        totalCost |-> inputCost + outputCost,
        inputTokens |-> inputTokens.n,
        outputTokens |-> outputTokens.n,
        totalTokens |-> inputTokens.n + outputTokens.n]

\* new TokenTracker(budget)
TrackerInit(b, model) ==
    /\ defaultModel = model
    /\ budget = b
    /\ usage = [inputTokens |-> 0, outputTokens |-> 0, totalTokens |-> 0, cost |-> 0]
    /\ costLog = <<>>

TrackerIdle == TrackerInit(DefaultDailyBudget, DEFAULT_MODEL_NAME)

Init ==
    /\ \E p \in Prompts, l \in LimitOptions : ConvInit(p, l)
    /\ lastCall = Call("constructor", JsUndefined, 0, 0, FALSE)
    /\ LoopIdle
    /\ AppIdle
    /\ TrackerIdle

(***************************************************************************)
(* The operations of ConversationManager.                                  *)
(***************************************************************************)
\* a setSystemPrompt that trims the history under the new prompt
setSystemPromptTrims(prompt) ==
    /\ systemPrompt' = prompt
    /\ messages' = _trimHistoryIfNeeded(prompt, heap, messages, maxHistoryTokens)
    /\ heap' = Collect(heap, Range(messages') \cup Range(returned.arr))
    /\ lastCall' = Call("setSystemPrompt", JsStr(prompt), 0, 0, FALSE)
    /\ UNCHANGED <<nextRef, maxHistoryTokens, now, returned>>

setSystemPrompt(prompt) ==
    /\ systemPrompt' = prompt
    /\ lastCall' = Call("setSystemPrompt", JsStr(prompt), 0, 0, FALSE)
    /\ UNCHANGED <<messages, heap, nextRef, maxHistoryTokens, now, returned>>

\* push {role, content, timestamp: Date.now()}, then _trimHistoryIfNeeded(); when
\* the estimate throws, the push has already happened and the array keeps it
AddMessage(op, role, content) ==
    /\ nextRef <= MaxAppends
    /\ LET obj == [role |-> role, content |-> content, timestamp |-> now]
           h == [r \in DOMAIN heap \cup {nextRef} |->
                    IF r = nextRef THEN obj ELSE heap[r]]
           pushed == Append(messages, nextRef)
           threw == TotalThrows(Deref(h, pushed))
           left == IF threw THEN pushed
                   ELSE _trimHistoryIfNeeded(systemPrompt, h, pushed, maxHistoryTokens)
       IN /\ messages' = left
          /\ heap' = Collect(h, Range(left) \cup Range(returned.arr))
          /\ lastCall' = Call(op, content, nextRef, Len(pushed) - Len(left), threw)
    /\ nextRef' = nextRef + 1
    /\ UNCHANGED <<systemPrompt, maxHistoryTokens, now, returned>>

addUserMessage(content) == AddMessage("addUserMessage", RoleUser, content)

addAssistantMessage(content) == AddMessage("addAssistantMessage", RoleAssistant, content)

\* a clear that resets the system prompt as well
clearResetsPrompt ==
    /\ messages' = <<>>
    /\ systemPrompt' = ""
    /\ heap' = Collect(heap, Range(returned.arr))
    /\ lastCall' = Call("clear", JsUndefined, 0, 0, FALSE)
    /\ UNCHANGED <<nextRef, maxHistoryTokens, now, returned>>

clear ==
    /\ messages' = <<>>
    /\ heap' = Collect(heap, Range(returned.arr))
    /\ lastCall' = Call("clear", JsUndefined, 0, 0, FALSE)
    /\ UNCHANGED <<nextRef, systemPrompt, maxHistoryTokens, now, returned>>

\* a formatting loop that pushes the stored object itself, timestamp included
RECURSIVE FormatMessagesKeepsTimestamp(_, _)
FormatMessagesKeepsTimestamp(objs, formatted) ==
    IF objs = <<>> THEN formatted
    ELSE FormatMessagesKeepsTimestamp(Tail(objs), Append(formatted, Head(objs)))

\* getMessages(): the payload for the API
RECURSIVE FormatMessages(_, _)
FormatMessages(objs, formatted) ==
    IF objs = <<>> THEN formatted
    ELSE FormatMessages(Tail(objs),
            Append(formatted, [role |-> Head(objs).role, content |-> Head(objs).content]))

getMessages ==
    FormatMessages(Deref(heap, messages),
        IF systemPrompt # ""
        THEN <<[role |-> RoleSystem, content |-> JsStr(systemPrompt)]>>
        ELSE <<>>)

\* getFullHistory(): [...this.messages], a new array of the same object references
getFullHistory ==
    /\ returned' = [held |-> TRUE, arr |-> messages]
    /\ heap' = Collect(heap, Range(messages))
    /\ lastCall' = Call("getFullHistory", JsUndefined, 0, 0, FALSE)
    /\ UNCHANGED <<messages, nextRef, systemPrompt, maxHistoryTokens, now>>

(***************************************************************************)
(* What a caller can do with the array getFullHistory() returned.          *)
(***************************************************************************)
\* history.push({role, content, timestamp})
CallerPush(role, content) ==
    /\ returned.held
    /\ nextRef <= MaxAppends
    /\ returned' = [returned EXCEPT !.arr = Append(@, nextRef)]
    /\ heap' = [r \in DOMAIN heap \cup {nextRef} |->
                    IF r = nextRef
                    THEN [role |-> role, content |-> content, timestamp |-> now]
                    ELSE heap[r]]
    /\ nextRef' = nextRef + 1
    /\ lastCall' = Call("caller.push", content, nextRef, 0, FALSE)
    /\ UNCHANGED <<messages, systemPrompt, maxHistoryTokens, now>>

\* history.pop()
CallerPop ==
    /\ returned.held
    /\ returned.arr # <<>>
    /\ returned' = [returned EXCEPT !.arr = SubSeq(@, 1, Len(@) - 1)]
    /\ heap' = Collect(heap, Range(messages) \cup Range(returned'.arr))
    /\ lastCall' = Call("caller.pop", JsUndefined, 0, 0, FALSE)
    /\ UNCHANGED <<messages, nextRef, systemPrompt, maxHistoryTokens, now>>

\* history[i].content = content
CallerSetContent(i, content) ==
    /\ returned.held
    /\ i \in 1..Len(returned.arr)
    /\ heap' = [heap EXCEPT ![returned.arr[i]].content = content]
    /\ lastCall' = Call("caller.setContent", content, returned.arr[i], 0, FALSE)
    /\ UNCHANGED <<messages, nextRef, systemPrompt, maxHistoryTokens, now, returned>>

\* history[i].role = role
CallerSetRole(i, role) ==
    /\ returned.held
    /\ i \in 1..Len(returned.arr)
    /\ heap' = [heap EXCEPT ![returned.arr[i]].role = role]
    /\ lastCall' = Call("caller.setRole", JsStr(role), returned.arr[i], 0, FALSE)
    /\ UNCHANGED <<messages, nextRef, systemPrompt, maxHistoryTokens, now, returned>>

\* history[i].timestamp = t
CallerSetTimestamp(i, t) ==
    /\ returned.held
    /\ i \in 1..Len(returned.arr)
    /\ heap' = [heap EXCEPT ![returned.arr[i]].timestamp = t]
    /\ lastCall' = Call("caller.setTimestamp", JsNum(t), returned.arr[i], 0, FALSE)
    /\ UNCHANGED <<messages, nextRef, systemPrompt, maxHistoryTokens, now, returned>>

\* time passes between two calls
Tick ==
    /\ now < MaxClock
    /\ now' = now + 1
    /\ lastCall' = Call("tick", JsUndefined, 0, 0, FALSE)
    /\ UNCHANGED <<messages, heap, nextRef, systemPrompt, maxHistoryTokens, returned>>

\* the tracker and the step-wise trimming loop take no part in these steps
ConvOnly == UNCHANGED <<loopVars, trackerVars, appVars>>

Next ==
    \/ \E p \in Prompts : setSystemPrompt(p) /\ ConvOnly
    \/ \E c \in StringContents : addUserMessage(c) /\ ConvOnly
    \/ \E c \in StringContents : addAssistantMessage(c) /\ ConvOnly
    \/ clear /\ ConvOnly
    \/ Tick /\ ConvOnly

Spec == Init /\ [][Next]_vars

(***************************************************************************)
(* The manager with a caller that keeps and mutates the array              *)
(* getFullHistory() returned.                                              *)
(***************************************************************************)
CallerContents == {JsStr("a"), JsStr("abcdefg")}

NextCaller ==
    \/ \E c \in CallerContents : addUserMessage(c) /\ ConvOnly
    \/ \E c \in CallerContents : addAssistantMessage(c) /\ ConvOnly
    \/ clear /\ ConvOnly
    \/ getFullHistory /\ ConvOnly
    \/ \E c \in CallerContents : CallerPush(RoleUser, c) /\ ConvOnly
    \/ CallerPop /\ ConvOnly
    \/ \E i \in 1..MaxAppends, c \in CallerContents : CallerSetContent(i, c) /\ ConvOnly
    \/ \E i \in 1..MaxAppends, r \in {RoleUser, RoleAssistant} : CallerSetRole(i, r) /\ ConvOnly
    \/ \E i \in 1..MaxAppends, t \in 0..MaxClock : CallerSetTimestamp(i, t) /\ ConvOnly

SpecCaller == Init /\ [][NextCaller]_vars

(***************************************************************************)
(* The manager with a caller that passes content of any type.              *)
(***************************************************************************)
UntypedContents == {JsStr("abcdefg")} \cup NonStringContents

NextUntyped ==
    \/ \E c \in UntypedContents : addUserMessage(c) /\ ConvOnly
    \/ \E c \in UntypedContents : addAssistantMessage(c) /\ ConvOnly
    \/ clear /\ ConvOnly

SpecUntyped == Init /\ [][NextUntyped]_vars

(***************************************************************************)
(* addUserMessage / addAssistantMessage one statement at a time: the push, *)
(* the early return of _trimHistoryIfNeeded, each iteration of its loop.   *)
(* JavaScript runs a call to completion, so nothing else happens until the *)
(* call is back at "idle".                                                 *)
(***************************************************************************)
LoopContents == {JsStr("a"), JsStr("abcdefg")}

\* lines 55-59 / 70-74: push, then enter _trimHistoryIfNeeded
LoopPush(op, role, content) ==
    /\ pc = "idle"
    /\ nextRef <= MaxLoopAppends
    /\ heap' = [r \in DOMAIN heap \cup {nextRef} |->
                    IF r = nextRef
                    THEN [role |-> role, content |-> content, timestamp |-> now]
                    ELSE heap[r]]
    /\ messages' = Append(messages, nextRef)
    /\ nextRef' = nextRef + 1
    /\ trimEntry' = messages'
    /\ pc' = "entry"
    /\ lastCall' = Call(op, content, nextRef, 0, FALSE)
    /\ UNCHANGED <<systemPrompt, maxHistoryTokens, now, returned>>
    /\ UNCHANGED <<trackerVars, appVars>>

\* lines 209-213: the estimate is within the limit, return
LoopEarlyReturn ==
    /\ pc = "entry"
    /\ JsLe(_calculateTotalTokens(systemPrompt, Deref(heap, messages)), JsNum(maxHistoryTokens))
    /\ pc' = "idle"
    /\ UNCHANGED <<messages, heap, nextRef, systemPrompt, maxHistoryTokens, now, lastCall,
                   returned, trimEntry>>
    /\ UNCHANGED <<trackerVars, appVars>>

\* line 215: over the limit, go on to the loop
LoopEnter ==
    /\ pc = "entry"
    /\ ~JsLe(_calculateTotalTokens(systemPrompt, Deref(heap, messages)), JsNum(maxHistoryTokens))
    /\ pc' = "while"
    /\ UNCHANGED <<messages, heap, nextRef, systemPrompt, maxHistoryTokens, now, lastCall,
                   returned, trimEntry>>
    /\ UNCHANGED <<trackerVars, appVars>>

\* line 220: the loop condition
LoopCondition ==
    /\ JsGt(_calculateTotalTokens(systemPrompt, Deref(heap, messages)), JsNum(maxHistoryTokens))
    /\ Len(messages) >= 2

\* an iteration that removes one message only
LoopIterRemovesOne ==
    /\ pc = "while"
    /\ LoopCondition
    /\ messages' = Tail(messages)
    /\ lastCall' = [lastCall EXCEPT !.removed = @ + 1]
    /\ UNCHANGED <<heap, nextRef, systemPrompt, maxHistoryTokens, now, returned, pc, trimEntry>>
    /\ UNCHANGED <<trackerVars, appVars>>

\* lines 220-223: one iteration, messages.splice(0, 2)
LoopIter ==
    /\ pc = "while"
    /\ LoopCondition
    /\ messages' = Splice02(messages)
    /\ lastCall' = [lastCall EXCEPT !.removed = @ + 2]
    /\ UNCHANGED <<heap, nextRef, systemPrompt, maxHistoryTokens, now, returned, pc, trimEntry>>
    /\ UNCHANGED <<trackerVars, appVars>>

\* lines 220, 225: the condition is false, the call returns
LoopExit ==
    /\ pc = "while"
    /\ ~LoopCondition
    /\ pc' = "idle"
    /\ heap' = Collect(heap, Range(messages) \cup Range(returned.arr))
    /\ UNCHANGED <<messages, nextRef, systemPrompt, maxHistoryTokens, now, lastCall,
                   returned, trimEntry>>
    /\ UNCHANGED <<trackerVars, appVars>>

NextTrimLoop ==
    \/ \E c \in LoopContents : LoopPush("addUserMessage", RoleUser, c)
    \/ \E c \in LoopContents : LoopPush("addAssistantMessage", RoleAssistant, c)
    \/ LoopEarlyReturn
    \/ LoopEnter
    \/ LoopIter
    \/ LoopExit

\* a call that has started runs on: the interpreter executes its next statement
SpecTrimLoop ==
    /\ Init
    /\ [][NextTrimLoop]_vars
    /\ WF_vars(LoopEarlyReturn)
    /\ WF_vars(LoopEnter)
    /\ WF_vars(LoopIter)
    /\ WF_vars(LoopExit)

(***************************************************************************)
(* The operations of TokenTracker.                                         *)
(***************************************************************************)
\* the model argument left out: the default parameter value applies
ModelOmitted == "(omitted)"

TrackerOnly == UNCHANGED <<convVars, loopVars, appVars>>

\* an addUsage that hands back the running total instead of the call's own record
addUsageReturnsTotal(inputTokens, outputTokens, modelArg) ==
    /\ Len(costLog) < MaxCalls
    /\ ~CostThrows(inputTokens, outputTokens)
    /\ LET model == IF modelArg = ModelOmitted THEN defaultModel ELSE modelArg
           costDetails == calculateCost(inputTokens, outputTokens, model)
       IN /\ usage' = [inputTokens |-> usage.inputTokens + costDetails.inputTokens,
                       outputTokens |-> usage.outputTokens + costDetails.outputTokens,
                       totalTokens |-> usage.totalTokens + costDetails.totalTokens,
                       cost |-> usage.cost + costDetails.totalCost]
          /\ costLog' = Append(costLog,
                [costDetails EXCEPT !.inputTokens = usage'.inputTokens,
                                    !.outputTokens = usage'.outputTokens,
                                    !.totalTokens = usage'.totalTokens,
                                    !.totalCost = usage'.cost])
          /\ lastCall' = Call("addUsage", [inputTokens |-> inputTokens,
                                outputTokens |-> outputTokens, model |-> model], 0, 0, FALSE)
    /\ UNCHANGED <<defaultModel, budget>>

\* addUsage(inputTokens, outputTokens, model): calculateCost throws before any
\* field is touched, or the four fields grow and the call's record is returned
addUsage(inputTokens, outputTokens, modelArg) ==
    /\ Len(costLog) < MaxCalls
    /\ LET model == IF modelArg = ModelOmitted THEN defaultModel ELSE modelArg
           threw == CostThrows(inputTokens, outputTokens)
           costDetails == calculateCost(inputTokens, outputTokens, model)
       IN /\ IF threw
             THEN UNCHANGED <<usage, costLog>>
             ELSE /\ usage' = [inputTokens |-> usage.inputTokens + costDetails.inputTokens,
                               outputTokens |-> usage.outputTokens + costDetails.outputTokens,
                               totalTokens |-> usage.totalTokens + costDetails.totalTokens,
                               cost |-> usage.cost + costDetails.totalCost]
                  /\ costLog' = Append(costLog, costDetails)
          /\ lastCall' = Call("addUsage", [inputTokens |-> inputTokens,
                                outputTokens |-> outputTokens, model |-> model], 0, 0, threw)
    /\ UNCHANGED <<defaultModel, budget>>

getCurrentCost == usage.cost

\* a reset that forgets the cost field
resetKeepsCost ==
    /\ usage' = [inputTokens |-> 0, outputTokens |-> 0, totalTokens |-> 0, cost |-> usage.cost]
    /\ costLog' = <<>>
    /\ lastCall' = Call("reset", JsUndefined, 0, Len(costLog), FALSE)
    /\ UNCHANGED <<defaultModel, budget>>

\* reset(): a fresh all-zero accumulator; lastCall.removed counts the calls
\* whose usage the reset dropped
reset ==
    /\ usage' = [inputTokens |-> 0, outputTokens |-> 0, totalTokens |-> 0, cost |-> 0]
    /\ costLog' = <<>>
    /\ lastCall' = Call("reset", JsUndefined, 0, Len(costLog), FALSE)
    /\ UNCHANGED <<defaultModel, budget>>

\* usagePercentage >= threshold for usagePercentage = (currentCost / budget) * 100,
\* as JavaScript evaluates it: with budget 0 the quotient is NaN for cost 0 (no
\* comparison holds) and Infinity for a positive cost; with a negative budget it
\* is never positive
PercentageAtLeast(currentCost, b, threshold) ==
    IF b > 0
    THEN (currentCost \div b) * 100 + ((currentCost % b) * 100) \div b >= threshold
    ELSE b = 0 /\ currentCost > 0

\* the status labels of getReport: '正常', '需要关注', '接近限制', '超出预算'
StatusNormal == "normal"
StatusAttention == "attention"
StatusNearLimit == "near-limit"
StatusExceeded == "exceeded"

\* checkBudget() strict at the warning threshold
checkBudgetStrictWarn ==
    LET currentCost == getCurrentCost
    IN [currentCost |-> currentCost,
        usage |-> usage,
        remaining |-> budget - currentCost,
        isNearLimit |-> PercentageAtLeast(currentCost, budget, 80),
        isExceeded |-> PercentageAtLeast(currentCost, budget, 100),
        shouldWarn |-> PercentageAtLeast(currentCost, budget, 71)]

\* checkBudget(): what the call returns in the current state; usage is a fresh
\* copy of the accumulator
checkBudget ==
    LET currentCost == getCurrentCost
    IN [currentCost |-> currentCost,
        usage |-> usage,
        remaining |-> budget - currentCost,
        isNearLimit |-> PercentageAtLeast(currentCost, budget, 80),
        isExceeded |-> PercentageAtLeast(currentCost, budget, 100),
        shouldWarn |-> PercentageAtLeast(currentCost, budget, 70)]

\* getReport() testing the thresholds from the lowest up
getReportLowestFirst ==
    LET currentCost == getCurrentCost
        status == IF PercentageAtLeast(currentCost, budget, 70) THEN StatusAttention
                  ELSE IF PercentageAtLeast(currentCost, budget, 80) THEN StatusNearLimit
                  ELSE IF PercentageAtLeast(currentCost, budget, 100) THEN StatusExceeded
                  ELSE StatusNormal
    IN [budget |-> budget,
        currentCost |-> currentCost,
        remaining |-> budget - currentCost,
        usage |-> usage,
        status |-> status]

\* getReport() strict at the budget: 'exceeded' only above 100 percent
getReportExceededAbove ==
    LET currentCost == getCurrentCost
        status == IF PercentageAtLeast(currentCost, budget, 101) THEN StatusExceeded
                  ELSE IF PercentageAtLeast(currentCost, budget, 80) THEN StatusNearLimit
                  ELSE IF PercentageAtLeast(currentCost, budget, 70) THEN StatusAttention
                  ELSE StatusNormal
    IN [budget |-> budget,
        currentCost |-> currentCost,
        remaining |-> budget - currentCost,
        usage |-> usage,
        status |-> status]

\* getReport(): what the call returns in the current state (the percentage field
\* is represented by the status it selects)
getReport ==
    LET currentCost == getCurrentCost
        status == IF PercentageAtLeast(currentCost, budget, 100) THEN StatusExceeded
                  ELSE IF PercentageAtLeast(currentCost, budget, 80) THEN StatusNearLimit
                  ELSE IF PercentageAtLeast(currentCost, budget, 70) THEN StatusAttention
                  ELSE StatusNormal
    IN [budget |-> budget,
        currentCost |-> currentCost,
        remaining |-> budget - currentCost,
        usage |-> usage,
        status |-> status]

\* the four read-only calls: each returns a value computed from the fields and
\* assigns nothing
Observers == {"getCurrentCost", "checkBudget", "getReport", "displayReport"}

CallGetCurrentCost ==
    /\ lastCall' = Call("getCurrentCost", JsUndefined, 0, 0, FALSE)
    /\ UNCHANGED trackerVars

CallCheckBudget ==
    /\ lastCall' = Call("checkBudget", JsUndefined, 0, 0, FALSE)
    /\ UNCHANGED trackerVars

CallGetReport ==
    /\ lastCall' = Call("getReport", JsUndefined, 0, 0, FALSE)
    /\ UNCHANGED trackerVars

CallDisplayReport ==
    /\ lastCall' = Call("displayReport", JsUndefined, 0, 0, FALSE)
    /\ UNCHANGED trackerVars

\* the inputs of the tracker
Budgets == {UnitsPerDollar \div 2, UnitsPerDollar}
DefaultModels == {"claude-3-5-sonnet-20241022", "claude-3-opus-20240229"}
InputTokenChoices == {JsNum(0), JsNum(1000000)}
OutputTokenChoices == {JsNum(0), JsNum(80000), JsNum(120000)}
BadTokenChoices == {JsNum(-1), JsNaN, JsUndefined, JsStr("100")}
ModelArgs == {ModelOmitted, "claude-3-haiku-20240307"}

InitTracker ==
    /\ ConvInit("", 0)
    /\ lastCall = Call("constructor", JsUndefined, 0, 0, FALSE)
    /\ LoopIdle
    /\ AppIdle
    /\ \E b \in Budgets, m \in DefaultModels : TrackerInit(b, m)

NextTracker ==
    \/ \E i \in InputTokenChoices, o \in OutputTokenChoices, m \in ModelArgs :
            addUsage(i, o, m) /\ TrackerOnly
    \/ \E bad \in BadTokenChoices :
            (addUsage(bad, JsNum(0), ModelOmitted) \/ addUsage(JsNum(0), bad, ModelOmitted))
            /\ TrackerOnly
    \/ reset /\ TrackerOnly
    \/ CallGetCurrentCost /\ TrackerOnly
    \/ CallCheckBudget /\ TrackerOnly
    \/ CallGetReport /\ TrackerOnly
    \/ CallDisplayReport /\ TrackerOnly

SpecTracker == InitTracker /\ [][NextTracker]_vars

\* new TokenTracker(budget) called directly: the constructor stores whatever
\* number it is given
AnyBudgets == Budgets \cup {0, 0 - UnitsPerDollar}

InitAnyBudget ==
    /\ ConvInit("", 0)
    /\ lastCall = Call("constructor", JsUndefined, 0, 0, FALSE)
    /\ LoopIdle
    /\ AppIdle
    /\ \E b \in AnyBudgets, m \in DefaultModels : TrackerInit(b, m)

SpecAnyBudget == InitAnyBudget /\ [][NextTracker]_vars

\* calculateCost called directly, under each configured DEFAULT_MODEL: the call
\* throws, or returns the record kept in lastCall.arg.result
CostTokenChoices == {JsNum(0), JsNum(1), JsNum(1000), JsNum(1000000)}
ConfiguredDefaults == DefaultModels \cup {"GLM-4.7"}

CallCalculateCost(inputTokens, outputTokens, model) ==
    /\ lastCall' = Call("calculateCost",
            IF CostThrows(inputTokens, outputTokens)
            THEN [inputTokens |-> inputTokens, outputTokens |-> outputTokens, model |-> model]
            ELSE [inputTokens |-> inputTokens, outputTokens |-> outputTokens, model |-> model,
                  result |-> calculateCost(inputTokens, outputTokens, model)],
            0, 0, CostThrows(inputTokens, outputTokens))
    /\ UNCHANGED trackerVars

InitCost ==
    /\ ConvInit("", 0)
    /\ lastCall = Call("constructor", JsUndefined, 0, 0, FALSE)
    /\ LoopIdle
    /\ AppIdle
    /\ \E m \in ConfiguredDefaults : TrackerInit(DefaultDailyBudget, m)

NextCost ==
    \E i \in CostTokenChoices \cup BadTokenChoices, o \in CostTokenChoices \cup BadTokenChoices,
       m \in ModelIds :
        CallCalculateCost(i, o, m) /\ TrackerOnly

SpecCost == InitCost /\ [][NextCost]_vars

(***************************************************************************)
(* The application: App (src/index.js) runs one feature session at a time; *)
(* the session sends each question through BaseFeature._sendMessage and    *)
(* ClaudeClient, and App._endSession hands a session record to saveSession. *)
(***************************************************************************)
MaxSessions == 2

\* what the user types, what the API answers, the usage a response reports
Questions == {JsStr("a"), JsStr("abcdefg")}
Replies == {JsStr("a")}
ResponseUsages == {[inputTokens |-> 10, outputTokens |-> 5],
                   [inputTokens |-> 1000, outputTokens |-> 500]}
FeaturePrompts == {"", "sys"}

\* Config.validate(), the budget check (the API-key check is taken as passed)
ValidateThrows(dailyBudget) == dailyBudget <= 0

\* App.initialize(): Config.validate(), then new TokenTracker(Config.DAILY_BUDGET)
InitApp ==
    /\ ConvInit("", 0)
    /\ lastCall = Call("initialize", JsUndefined, 0, 0, FALSE)
    /\ LoopIdle
    /\ AppIdle
    /\ \E b \in AnyBudgets, m \in DefaultModels : ~ValidateThrows(b) /\ TrackerInit(b, m)

\* App._runFeature up to the first prompt for input: a new feature with a new
\* ConversationManager and the system prompt its prompt file gives
_runFeature(prompt) ==
    /\ appPc = "menu"
    /\ Len(saved) < MaxSessions
    /\ appPc' = "session"
    /\ messages' = <<>>
    /\ heap' = Collect(heap, Range(returned.arr))
    /\ systemPrompt' = prompt
    /\ maxHistoryTokens' = DEFAULT_MAX_HISTORY_TOKENS
    /\ lastCall' = Call("_runFeature", JsStr(prompt), 0, 0, FALSE)
    /\ UNCHANGED <<nextRef, now, returned, attempt, trips, saved, client, storeVars, loopVars, trackerVars>>

\* BaseFeature._sendMessage up to its await: the question is appended and the
\* first API attempt is sent
_sendMessage(message) ==
    /\ appPc = "session"
    /\ addUserMessage(message)
    /\ appPc' = "inFlight"
    /\ attempt' = 1
    /\ UNCHANGED <<trips, saved, client, storeVars, loopVars, trackerVars>>

\* ClaudeClient._handleError on a 429 or a network error with attempts left:
\* the request is sent again
_handleErrorRetries ==
    /\ appPc = "inFlight"
    /\ attempt < DefaultMaxRetries
    /\ attempt' = attempt + 1
    /\ lastCall' = Call("_handleError", JsNum(attempt), 0, 0, FALSE)
    /\ UNCHANGED <<convVars, loopVars, trackerVars, appPc, trips, saved, client, storeVars>>

\* a failed round trip that bills the usage of a response it never got
_sendMessageThrowsBillsUsage ==
    /\ appPc = "inFlight"
    /\ appPc' = "session"
    /\ attempt' = 0
    /\ trips' = Append(trips, [ok |-> FALSE, inputTokens |-> 0, outputTokens |-> 0])
    /\ lastCall' = Call("_sendMessage", JsNum(attempt), 0, 0, TRUE)
    /\ usage' = [usage EXCEPT !.inputTokens = @ + 10, !.totalTokens = @ + 10]
    /\ UNCHANGED <<convVars, loopVars, defaultModel, budget, costLog, saved, client, storeVars>>

\* the API call throws a ClaudeAPIError (no retry left, or an error that is not
\* retried): _sendMessage logs and rethrows, the session loop reports the error
\* and asks for the next input
_sendMessageThrows ==
    /\ appPc = "inFlight"
    /\ appPc' = "session"
    /\ attempt' = 0
    /\ trips' = Append(trips, [ok |-> FALSE, inputTokens |-> 0, outputTokens |-> 0])
    /\ lastCall' = Call("_sendMessage", JsNum(attempt), 0, 0, TRUE)
    /\ UNCHANGED <<convVars, loopVars, trackerVars, saved, client, storeVars>>

\* the API call returns {content, usage}: the reply is appended, execute returns
\* {response, usage} to the session loop, which prints it and asks for the next
\* input
_sendMessageReturns(responseUsage, content) ==
    /\ appPc = "inFlight"
    /\ addAssistantMessage(content)
    /\ appPc' = "session"
    /\ attempt' = 0
    /\ trips' = Append(trips, [ok |-> TRUE, inputTokens |-> responseUsage.inputTokens,
                                outputTokens |-> responseUsage.outputTokens])
    /\ UNCHANGED <<saved, client, storeVars, loopVars, trackerVars>>

\* '/exit': the feature is destroyed (its history cleared) and App._endSession
\* hands saveSession a record holding tokenTracker.usage
_endSession ==
    /\ appPc = "session"
    /\ clear
    /\ appPc' = "menu"
    /\ saved' = Append(saved, [usage |-> usage, trips |-> Len(trips)])
    /\ historyFile' = Append(historyFile,
            [id |-> [given |-> FALSE, s |-> "", n |-> Len(historyFile) + 1],
             mode |-> "interactive-tutor", createdAt |-> now])
    /\ UNCHANGED <<saveCalls, client>>
    /\ UNCHANGED <<attempt, trips, loopVars, trackerVars>>

NextApp ==
    \/ \E prompt \in FeaturePrompts : _runFeature(prompt)
    \/ \E message \in Questions : _sendMessage(message)
    \/ _handleErrorRetries
    \/ _sendMessageThrows
    \/ \E u \in ResponseUsages, content \in Replies : _sendMessageReturns(u, content)
    \/ _endSession
    \/ Tick /\ ConvOnly

SpecApp == InitApp /\ [][NextApp]_vars

(***************************************************************************)
(* A feature used directly (as its tests do): constructed, then            *)
(* initialize(), execute(), handleCommand(), exportConversation().  The    *)
(* feature is initialized exactly when appPc is "session" or "inFlight";   *)
(* "constructed" is a feature whose initialize() has not run.              *)
(***************************************************************************)
isInitialized == appPc \in {"session", "inFlight"}

\* ConversationManager.exportToText(): the empty marker, or the prompt section
\* (when the prompt is non-empty) and one entry per message, labelled as user
\* when the role is 'user' and as assistant otherwise
exportToText ==
    LET objs == Deref(heap, messages)
    IN IF Len(messages) = 0 /\ systemPrompt = ""
       THEN [empty |-> TRUE, prompt |-> "", entries |-> <<>>]
       ELSE [empty |-> FALSE,
             prompt |-> systemPrompt,
             entries |-> [i \in 1..Len(objs) |->
                            [label |-> IF objs[i].role = RoleUser THEN "user-label"
                                       ELSE "assistant-label",
                             content |-> objs[i].content,
                             timestamp |-> objs[i].timestamp]]]

\* the formats exportConversation is asked for
ExportFormats == {"json", "markdown", "text", "md", "invalid_format"}
NoOutput == [format |-> "none"]

\* an exportConversation that takes 'md' for 'markdown'
exportResultMdAlias(format) ==
    IF ~isInitialized
    THEN [threw |-> TRUE, error |-> "not-initialized", output |-> NoOutput]
    ELSE CASE format = "json" ->
                [threw |-> FALSE, error |-> "",
                 output |-> [format |-> "json", history |-> Deref(heap, messages)]]
           [] format \in {"markdown", "md"} ->
                [threw |-> FALSE, error |-> "",
                 output |-> [format |-> "markdown", count |-> Len(messages),
                             body |-> exportToText]]
           [] format = "text" ->
                [threw |-> FALSE, error |-> "",
                 output |-> [format |-> "text", body |-> exportToText]]
           [] OTHER ->
                [threw |-> TRUE, error |-> "unsupported-format", output |-> NoOutput]

\* what exportConversation(format) returns or throws in the current state:
\* JSON.stringify of the full history, the Markdown header with the message
\* count and exportToText(), the text header and exportToText(), or an Error
exportResult(format) ==
    IF ~isInitialized
    THEN [threw |-> TRUE, error |-> "not-initialized", output |-> NoOutput]
    ELSE CASE format = "json" ->
                [threw |-> FALSE, error |-> "",
                 output |-> [format |-> "json", history |-> Deref(heap, messages)]]
           [] format = "markdown" ->
                [threw |-> FALSE, error |-> "",
                 output |-> [format |-> "markdown", count |-> Len(messages),
                             body |-> exportToText]]
           [] format = "text" ->
                [threw |-> FALSE, error |-> "",
                 output |-> [format |-> "text", body |-> exportToText]]
           [] OTHER ->
                [threw |-> TRUE, error |-> "unsupported-format", output |-> NoOutput]

exportConversation(format) ==
    /\ appPc \in {"constructed", "session"}
    /\ lastCall' = Call("exportConversation",
                        [format |-> format, result |-> exportResult(format)],
                        0, 0, exportResult(format).threw)
    /\ UNCHANGED <<convVars, loopVars, trackerVars, appVars>>

\* the commands typed in a session, as the words split(' ') gives after
\* trim() and toLowerCase()
Commands == {<<"/help">>, <<"/clear">>, <<"/summary">>, <<"/exit">>, <<"/export">>,
             <<"/export", "json">>, <<"/export", "md">>, <<"/export", "text">>,
             <<"a", "question">>}

\* handleCommand(command): '/clear' clears the history, '/export' exports in
\* the format of the second word ('markdown' when there is none), the other
\* commands change nothing; anything else returns null
handleCommand(command) ==
    /\ appPc \in {"constructed", "session"}
    /\ LET word == command[1]
           format == IF Len(command) > 1 THEN command[2] ELSE "markdown"
           result ==
             CASE word = "/help" -> [threw |-> FALSE, kind |-> "help"]
               [] word = "/clear" -> [threw |-> ~isInitialized, kind |-> "cleared"]
               [] word = "/summary" ->
                    [threw |-> ~isInitialized, kind |-> "summary",
                     messageCount |-> Len(messages), turnCount |-> Len(messages) \div 2]
               [] word = "/exit" -> [threw |-> FALSE, kind |-> "EXIT_SIGNAL"]
               [] word = "/export" ->
                    [threw |-> exportResult(format).threw, kind |-> "export-success",
                     format |-> format, exported |-> exportResult(format).output]
               [] OTHER -> [threw |-> FALSE, kind |-> "null"]
       IN /\ lastCall' = Call("handleCommand", [command |-> command, result |-> result],
                              0, 0, result.threw)
          /\ IF word = "/clear" /\ isInitialized
             THEN /\ messages' = <<>>
                  /\ heap' = Collect(heap, Range(returned.arr))
             ELSE UNCHANGED <<messages, heap>>
    /\ UNCHANGED <<nextRef, systemPrompt, maxHistoryTokens, now, returned,
                   loopVars, trackerVars, appVars>>

\* initialize(): the client and the ConversationManager are created and the
\* prompt of the prompt file is set
initialize ==
    /\ appPc = "constructed"
    /\ appPc' = "session"
    /\ lastCall' = Call("initialize", JsUndefined, 0, 0, FALSE)
    /\ UNCHANGED <<convVars, loopVars, trackerVars, attempt, trips, saved, client, storeVars>>

\* execute({question}): await this.initialize() first, which initializes a
\* feature that is not initialized yet, then _sendMessage(question) up to its
\* await
execute(question) ==
    /\ appPc \in {"constructed", "session"}
    /\ addUserMessage(question)
    /\ appPc' = "inFlight"
    /\ attempt' = 1
    /\ UNCHANGED <<trips, saved, client, storeVars, loopVars, trackerVars>>

\* destroy(): the history is cleared and the feature is no longer initialized
destroy ==
    /\ appPc = "session"
    /\ clear
    /\ appPc' = "constructed"
    /\ UNCHANGED <<attempt, trips, saved, client, storeVars, loopVars, trackerVars>>

\* new InteractiveTutor(): nothing initialized; the conversation variables hold
\* what initialize() will create, with the prompt the prompt file gives
InitFeature ==
    /\ \E prompt \in FeaturePrompts : ConvInit(prompt, 0)
    /\ lastCall = Call("constructor", JsUndefined, 0, 0, FALSE)
    /\ LoopIdle
    /\ appPc = "constructed"
    /\ attempt = 0
    /\ trips = <<>>
    /\ saved = <<>>
    /\ historyFile = <<>>
    /\ saveCalls = <<>>
    /\ client = newClaudeClient(0)
    /\ TrackerIdle

NextFeature ==
    \/ initialize
    \/ \E question \in Questions : execute(question)
    \/ _handleErrorRetries
    \/ _sendMessageThrows
    \/ \E u \in ResponseUsages, content \in Replies : _sendMessageReturns(u, content)
    \/ \E format \in ExportFormats : exportConversation(format)
    \/ \E command \in Commands : handleCommand(command)
    \/ destroy
    \/ Tick /\ ConvOnly

SpecFeature == InitFeature /\ [][NextFeature]_vars

(***************************************************************************)
(* HistoryManager (src/storage/HistoryManager.js).  saveSession is an      *)
(* async function: _readHistory() reads the file when the call starts, the *)
(* record is pushed and the file written when the first await resumes, and *)
(* the id is returned when the second await resumes.                       *)
(***************************************************************************)
MaxSaves == 3

SessionModes == {"mode-a", "mode-b"}
\* session.id: the empty string stands for no id given
SessionIds == {"", "custom-session-id"}
SessionLimits == {0, 1, 2, 10}

GivenId(s) == [given |-> TRUE, s |-> s, n |-> 0]
\* generateUUID(): a fresh id for every call
GeneratedId(k) == [given |-> FALSE, s |-> "", n |-> k]

AllReturned == \A c \in DOMAIN saveCalls : saveCalls[c].pc = "returned"

\* saveSession(session) up to its first await: _readHistory() has parsed the file
SaveRead(id, mode) ==
    /\ Len(saveCalls) < MaxSaves
    /\ saveCalls' = Append(saveCalls,
            [pc |-> "awaitRead", history |-> historyFile,
             session |-> [id |-> id, mode |-> mode],
             record |-> [id |-> GeneratedId(0), mode |-> mode, createdAt |-> 0]])
    /\ lastCall' = Call("_readHistory", JsStr(id), Len(saveCalls) + 1, 0, FALSE)
    /\ UNCHANGED <<convVars, loopVars, trackerVars, appPc, attempt, trips, saved, client, historyFile>>

\* the first await resumes: the id is chosen, the record is built and pushed on
\* the array that was read, and _writeHistory() writes that array to the file
SaveWrite(c) ==
    /\ c \in DOMAIN saveCalls
    /\ saveCalls[c].pc = "awaitRead"
    /\ LET session == saveCalls[c].session
           sessionRecord == [id |-> IF session.id # "" THEN GivenId(session.id)
                                    ELSE GeneratedId(c),
                             mode |-> session.mode,
                             createdAt |-> now]
           history == Append(saveCalls[c].history, sessionRecord)
       IN /\ historyFile' = history
          /\ saveCalls' = [saveCalls EXCEPT ![c].pc = "awaitWrite",
                                            ![c].history = history,
                                            ![c].record = sessionRecord]
    /\ lastCall' = Call("_writeHistory", JsUndefined, c, 0, FALSE)
    /\ UNCHANGED <<convVars, loopVars, trackerVars, appPc, attempt, trips, saved, client>>

\* the second await resumes: saveSession returns the id
SaveReturn(c) ==
    /\ c \in DOMAIN saveCalls
    /\ saveCalls[c].pc = "awaitWrite"
    /\ saveCalls' = [saveCalls EXCEPT ![c].pc = "returned"]
    /\ lastCall' = Call("saveSession", saveCalls[c].record.id, c, 0, FALSE)
    /\ UNCHANGED <<convVars, loopVars, trackerVars, appPc, attempt, trips, saved, client, historyFile>>

\* history.sort((a, b) => new Date(b.createdAt) - new Date(a.createdAt)): a
\* stable sort, records with equal createdAt keep their order in the file
RECURSIVE SortByCreatedAtDesc(_)
SortByCreatedAtDesc(history) ==
    IF history = <<>> THEN <<>>
    ELSE LET rest == SortByCreatedAtDesc(SubSeq(history, 1, Len(history) - 1))
             x == history[Len(history)]
             k == Cardinality({i \in 1..Len(rest) : rest[i].createdAt >= x.createdAt})
         IN SubSeq(rest, 1, k) \o <<x>> \o SubSeq(rest, k + 1, Len(rest))

\* getSessions(limit): sort, then slice(0, limit)
getSessions(limit) ==
    /\ AllReturned
    /\ LET sorted == SortByCreatedAtDesc(historyFile)
           result == SubSeq(sorted, 1, IF limit < Len(sorted) THEN limit ELSE Len(sorted))
       IN lastCall' = Call("getSessions", [limit |-> limit, result |-> result], 0, 0, FALSE)
    /\ UNCHANGED <<convVars, loopVars, trackerVars, appVars>>

\* getSessionsByMode(mode): history.filter(session => session.mode === mode)
getSessionsByMode(mode) ==
    /\ AllReturned
    /\ lastCall' = Call("getSessionsByMode",
            [mode |-> mode, result |-> SelectSeq(historyFile, LAMBDA r : r.mode = mode)],
            0, 0, FALSE)
    /\ UNCHANGED <<convVars, loopVars, trackerVars, appVars>>

\* clearAll(): _writeHistory([])
clearAll ==
    /\ AllReturned
    /\ historyFile' = <<>>
    /\ lastCall' = Call("clearAll", JsUndefined, 0, Len(historyFile), FALSE)
    /\ UNCHANGED <<convVars, loopVars, trackerVars, appPc, attempt, trips, saved, client, saveCalls>>

\* new HistoryManager(dataDir), initialize(): the file holds an empty array
InitHistory ==
    /\ ConvInit("", 0)
    /\ lastCall = Call("initialize", JsUndefined, 0, 0, FALSE)
    /\ LoopIdle
    /\ AppIdle
    /\ TrackerIdle

\* the calls issued one after another: each call is awaited before the next
NextHistory ==
    \/ \E id \in SessionIds, mode \in SessionModes : AllReturned /\ SaveRead(id, mode)
    \/ \E c \in 1..MaxSaves : SaveWrite(c)
    \/ \E c \in 1..MaxSaves : SaveReturn(c)
    \/ \E limit \in SessionLimits : getSessions(limit)
    \/ \E mode \in SessionModes : getSessionsByMode(mode)
    \/ clearAll
    \/ Tick /\ ConvOnly

SpecHistory == InitHistory /\ [][NextHistory]_vars

\* saveSession calls that overlap: a call may start while others are suspended
\* at an await
NextHistoryOverlap ==
    \/ \E id \in SessionIds, mode \in SessionModes : SaveRead(id, mode)
    \/ \E c \in 1..MaxSaves : SaveWrite(c)
    \/ \E c \in 1..MaxSaves : SaveReturn(c)

SpecHistoryOverlap == InitHistory /\ [][NextHistoryOverlap]_vars

(***************************************************************************)
(* ClaudeClient (src/src/core/ClaudeClient.js): one sendMessage call at a  *)
(* time, each a chain of _retryableRequest attempts.  client.attempts      *)
(* lists what each attempt of the call in progress got from the API,       *)
(* client.waits the milliseconds slept before each retry.                  *)
(***************************************************************************)
MaxRetriesOption == 4

\* options.maxRetries: absent (0) or a positive whole number
MaxRetriesOptions == 0..MaxRetriesOption

\* error.code of the network errors that are retried
NetworkCodes == {"ECONNREFUSED", "ETIMEDOUT"}

\* what client.messages.create() can throw: an API error with a status, a
\* network error with a code, an error with neither (a TypeError from a
\* response without content among them)
ApiErrors ==
    {[ok |-> FALSE, status |-> st, code |-> ""] : st \in {429, 401, 400, 500}}
    \cup {[ok |-> FALSE, status |-> 0, code |-> c] : c \in NetworkCodes \cup {""}}

ApiResponse == [ok |-> TRUE, status |-> 200, code |-> ""]

\* attempt <= this.maxRetries: one attempt more than the configured number
ShouldRetryInclusive(attemptNo) == attemptNo <= client.maxRetries

\* attempt < this.maxRetries
ShouldRetry(attemptNo) == attemptNo < client.maxRetries

\* _handleError(error, params, attempt): retry after waitTime milliseconds, or
\* throw a ClaudeAPIError with a code
handleErrorOutcome(error, attemptNo) ==
    IF error.status = 429
    THEN IF ShouldRetry(attemptNo)
         THEN [retry |-> TRUE, waitTime |-> (2 ^ attemptNo) * 1000, code |-> "none"]
         ELSE [retry |-> FALSE, waitTime |-> 0, code |-> "RATE_LIMIT"]
    ELSE IF error.status = 401
    THEN [retry |-> FALSE, waitTime |-> 0, code |-> "INVALID_API_KEY"]
    ELSE IF error.status = 400
    THEN [retry |-> FALSE, waitTime |-> 0, code |-> "INVALID_REQUEST"]
    ELSE IF error.code \in {"ECONNREFUSED", "ETIMEDOUT", "ENOTFOUND"}
    THEN IF ShouldRetry(attemptNo)
         THEN [retry |-> TRUE, waitTime |-> 2000, code |-> "none"]
         ELSE [retry |-> FALSE, waitTime |-> 0, code |-> "NETWORK_ERROR"]
    ELSE [retry |-> FALSE, waitTime |-> 0, code |-> "UNKNOWN_ERROR"]

\* the conversation, the tracker, the application and the store take no part
ClientOnly ==
    UNCHANGED <<convVars, loopVars, trackerVars, appPc, attempt, trips, saved, storeVars>>

\* sendMessage(messages, options): _retryableRequest(apiParams), attempt 1
sendMessage ==
    /\ client.pc \in {"idle", "done"}
    /\ client' = [client EXCEPT !.pc = "requesting", !.attempt = 1, !.attempts = <<>>,
                                !.waits = <<>>, !.result = "none"]
    /\ lastCall' = Call("sendMessage", JsUndefined, 0, 0, FALSE)
    /\ ClientOnly

\* client.messages.create() resolves: the normalized response is returned
_retryableRequestReturns ==
    /\ client.pc = "requesting"
    /\ client' = [client EXCEPT !.pc = "done", !.result = "response",
                                !.attempts = Append(@, ApiResponse)]
    /\ lastCall' = Call("_retryableRequest", JsNum(client.attempt), 0, 0, FALSE)
    /\ ClientOnly

\* client.messages.create() rejects: _handleError sleeps before a retry or throws
_handleError(error) ==
    /\ client.pc = "requesting"
    /\ LET outcome == handleErrorOutcome(error, client.attempt)
       IN /\ client' = IF outcome.retry
                       THEN [client EXCEPT !.pc = "sleeping",
                                           !.attempts = Append(@, error),
                                           !.waits = Append(@, outcome.waitTime)]
                       ELSE [client EXCEPT !.pc = "done", !.result = outcome.code,
                                           !.attempts = Append(@, error)]
          /\ lastCall' = Call("_handleError", JsNum(client.attempt), 0, 0, ~outcome.retry)
    /\ ClientOnly

\* the timer of _sleep fires: _retryableRequest(params, attempt + 1)
_sleepResolves ==
    /\ client.pc = "sleeping"
    /\ client' = [client EXCEPT !.pc = "requesting", !.attempt = @ + 1]
    /\ lastCall' = Call("_sleep", JsNum(client.waits[Len(client.waits)]), 0, 0, FALSE)
    /\ ClientOnly

InitClient ==
    /\ ConvInit("", 0)
    /\ lastCall = Call("constructor", JsUndefined, 0, 0, FALSE)
    /\ LoopIdle
    /\ TrackerIdle
    /\ appPc = "menu"
    /\ attempt = 0
    /\ trips = <<>>
    /\ saved = <<>>
    /\ historyFile = <<>>
    /\ saveCalls = <<>>
    /\ \E maxRetriesOption \in MaxRetriesOptions : client = newClaudeClient(maxRetriesOption)

\* the API settles the request in flight, one way or the other
ApiSettles == _retryableRequestReturns \/ \E error \in ApiErrors : _handleError(error)

NextClient ==
    \/ sendMessage
    \/ _retryableRequestReturns
    \/ \E error \in ApiErrors : _handleError(error)
    \/ _sleepResolves

SpecClient == InitClient /\ [][NextClient]_vars

\* every request the SDK sends settles (it has a timeout) and every timer fires
FairSpecClient == SpecClient /\ WF_vars(ApiSettles) /\ WF_vars(_sleepResolves)

(***************************************************************************)
(* Claims about ConversationManager.                                       *)
(***************************************************************************)
AddOps == {"addUserMessage", "addAssistantMessage"}
RoleOf(op) == IF op = "addUserMessage" THEN RoleUser ELSE RoleAssistant
Stored == Deref(heap, messages)
StoredRoles == [i \in 1..Len(messages) |-> heap[messages[i]].role]
Estimate == _calculateTotalTokens(systemPrompt, Stored)
\* this step is an addUserMessage / addAssistantMessage call that returned
AddStep == lastCall'.op \in AddOps /\ nextRef' # nextRef /\ ~lastCall'.threw

\* C1: after any addUserMessage / addAssistantMessage call the message just
\* appended is the last element of the stored sequence.
C1_NewestMessageKept ==
    lastCall.op \in AddOps =>
        /\ Len(messages) > 0
        /\ messages[Len(messages)] = lastCall.ref

\* C2: a trimming step removes messages from the front only, in whole pairs of a
\* user message followed by its assistant reply, and what it leaves is empty or
\* begins with a user message.
C2_TrimsWholePairs ==
    [][(AddStep /\ Len(messages') < Len(messages) + 1) =>
        LET pushed == Append(messages, nextRef)
            roles == Append(StoredRoles, RoleOf(lastCall'.op))
            k == Len(pushed) - Len(messages')
        IN /\ messages' = SubSeq(pushed, k + 1, Len(pushed))
           /\ k % 2 = 0
           /\ \A j \in 1..k : roles[j] = IF j % 2 = 1 THEN RoleUser ELSE RoleAssistant
           /\ (messages' # <<>> => heap'[messages'[1]].role = RoleUser)
      ]_vars

\* C3: after every add call returns, the estimate is within maxHistoryTokens or
\* fewer than two messages remain; and an append whose estimate is already
\* within maxHistoryTokens removes nothing.
C3_TrimBound ==
    [][AddStep =>
        LET obj == [role |-> RoleOf(lastCall'.op), content |-> lastCall'.arg, timestamp |-> now]
            after == _calculateTotalTokens(systemPrompt, Append(Stored, obj))
        IN /\ \/ JsLe(_calculateTotalTokens(systemPrompt', Deref(heap', messages')),
                      JsNum(maxHistoryTokens'))
              \/ Len(messages') < 2
           /\ JsLe(after, JsNum(maxHistoryTokens)) =>
                /\ messages' = Append(messages, nextRef)
                /\ Deref(heap', messages') = Append(Stored, obj)
      ]_vars

\* an add call has trimmed one pair away and left a history within the limit
C3_Witness ==
    /\ lastCall.op \in AddOps
    /\ lastCall.removed = 2
    /\ Len(messages) >= 1
    /\ JsLe(Estimate, JsNum(maxHistoryTokens))

\* C5: only setSystemPrompt changes the system prompt: the add calls (with their
\* trimming) and clear leave it as it is, and clear leaves no message.
C5_PromptFrame ==
    [][/\ lastCall'.op # "setSystemPrompt" => systemPrompt' = systemPrompt
       /\ lastCall'.op = "clear" => messages' = <<>>
      ]_vars

\* a clear of a history that held messages under a system prompt
C5_Witness ==
    /\ lastCall.op = "clear"
    /\ systemPrompt # ""
    /\ nextRef > 2
    /\ messages = <<>>

\* C6: setSystemPrompt(text) makes text the system prompt and leaves the stored
\* messages exactly as they were, also when the estimate now exceeds the limit.
C6_SetPromptFrame ==
    [][lastCall'.op = "setSystemPrompt" =>
        /\ systemPrompt' = lastCall'.arg.s
        /\ messages' = messages
        /\ Deref(heap', messages') = Stored
      ]_vars

\* a prompt was set that puts a history of two or more messages over the limit
C6_Witness ==
    /\ lastCall.op = "setSystemPrompt"
    /\ Len(messages) >= 2
    /\ JsGt(Estimate, JsNum(maxHistoryTokens))

\* C7: getMessages() is the system prompt as one system-role entry iff a prompt
\* is set, then the stored messages in order, each with role and content only.
C7_GetMessagesShape ==
    LET m == getMessages
        off == IF systemPrompt # "" THEN 1 ELSE 0
    IN /\ Len(m) = Len(messages) + off
       /\ off = 1 => m[1] = [role |-> RoleSystem, content |-> JsStr(systemPrompt)]
       /\ \A i \in 1..Len(messages) :
            /\ m[i + off].role = heap[messages[i]].role
            /\ m[i + off].content = heap[messages[i]].content
            /\ m[i + off].role # RoleSystem
       /\ \A j \in 1..Len(m) : DOMAIN m[j] = {"role", "content"}

\* a history with a system prompt and two stored messages
C7_Witness ==
    /\ systemPrompt # ""
    /\ Len(messages) >= 2
    /\ Len(getMessages) = Len(messages) + 1

\* C4: the trimming loop run after an append terminates: each iteration takes
\* exactly two messages away, never raises the estimate, and no iteration runs
\* once fewer than two messages remain.
C4_TrimLoopTerminates ==
    /\ (pc # "idle") ~> (pc = "idle")
    /\ [][(pc = "while" /\ pc' = "while") =>
            /\ Len(messages') = Len(messages) - 2
            /\ Len(messages) >= 2
            /\ JsLe(_calculateTotalTokens(systemPrompt', Deref(heap', messages')),
                    _calculateTotalTokens(systemPrompt, Deref(heap, messages)))
         ]_vars
    /\ [][(pc = "while" /\ Len(messages) < 2) => pc' = "idle"]_vars

\* a call whose loop ran twice has returned
C4_Witness ==
    /\ pc = "idle"
    /\ lastCall.op \in AddOps
    /\ lastCall.removed = 4

\* the step-wise loop leaves what _trimHistoryIfNeeded, taken as one step, leaves
LoopAgreesWithOneStep ==
    [][(pc # "idle" /\ pc' = "idle") =>
        messages' = _trimHistoryIfNeeded(systemPrompt, heap, trimEntry, maxHistoryTokens)
      ]_vars

CallerOps == {"caller.push", "caller.pop", "caller.setContent", "caller.setRole",
              "caller.setTimestamp"}

\* C8: no mutation of the value getFullHistory() returned (appending or removing
\* elements, changing a returned message's role, content or timestamp) changes
\* the stored message sequence, nor what getMessages() returns afterwards.
C8_FullHistoryIsACopy ==
    [][lastCall'.op \in CallerOps =>
        /\ messages' = messages
        /\ Deref(heap', messages') = Stored
        /\ getMessages' = getMessages
      ]_vars

\* C9: an add call with non-string content fails with an error and leaves the
\* stored message sequence unchanged.
C9_NonStringRejected ==
    [][(lastCall'.op \in AddOps /\ nextRef' # nextRef /\ lastCall'.arg.type # "string") =>
        /\ lastCall'.threw
        /\ messages' = messages
      ]_vars

(***************************************************************************)
(* Claims about TokenTracker.                                              *)
(***************************************************************************)
RECURSIVE SumOf(_, _)
SumOf(log, field) ==
    IF log = <<>> THEN 0 ELSE log[1][field] + SumOf(Tail(log), field)

\* C10: getCurrentCost() is the sum of the totalCost of the records addUsage
\* returned since construction or the last reset, the token accumulators are the
\* sums of the per-call values, and each call returns the record of that call
\* alone.
C10_CostIsSumOfIncrements ==
    /\ getCurrentCost = SumOf(costLog, "totalCost")
    /\ usage.inputTokens = SumOf(costLog, "inputTokens")
    /\ usage.outputTokens = SumOf(costLog, "outputTokens")
    /\ usage.totalTokens = SumOf(costLog, "totalTokens")
    /\ (lastCall.op = "addUsage" /\ ~lastCall.threw) =>
            LET r == costLog[Len(costLog)]
                i == lastCall.arg.inputTokens.n
                o == lastCall.arg.outputTokens.n
                prices == getModelPrices(lastCall.arg.model)
            IN /\ r.inputTokens = i
               /\ r.outputTokens = o
               /\ r.totalTokens = i + o
               /\ r.totalCost = i * prices.input + o * prices.output

\* a second addUsage call with a cost of its own has returned
C10_Witness ==
    /\ lastCall.op = "addUsage"
    /\ ~lastCall.threw
    /\ Len(costLog) >= 2
    /\ costLog[1].totalCost > 0
    /\ costLog[Len(costLog)].totalCost > 0
    /\ getCurrentCost > costLog[Len(costLog)].totalCost

\* C11: between two consecutive states none of the four accumulator fields
\* (inputTokens, outputTokens, totalTokens, cost) decreases unless the step is
\* reset(), and getCurrentCost, checkBudget, getReport and displayReport leave
\* the accumulator and the budget as they were.
C11_AccumulatorMonotone ==
    [][/\ lastCall'.op # "reset" =>
            /\ usage'.inputTokens >= usage.inputTokens
            /\ usage'.outputTokens >= usage.outputTokens
            /\ usage'.totalTokens >= usage.totalTokens
            /\ usage'.cost >= usage.cost
       /\ lastCall'.op \in Observers => usage' = usage /\ budget' = budget]_vars

\* a report was displayed after two calls had added their usage
C11_Witness ==
    /\ lastCall.op = "displayReport"
    /\ Len(costLog) >= 2
    /\ usage.cost > 0

\* C12: reset() sets inputTokens, outputTokens, totalTokens and cost to zero and
\* leaves the budget unchanged; right after it getCurrentCost() is 0 and
\* getReport().status is the 'normal' label, and an addUsage that follows
\* accumulates from zero.
C12_ResetZeroes ==
    [][/\ lastCall'.op = "reset" =>
            /\ usage'.inputTokens = 0 /\ usage'.outputTokens = 0
            /\ usage'.totalTokens = 0 /\ usage'.cost = 0
            /\ budget' = budget
            /\ getCurrentCost' = 0
            /\ getReport'.status = StatusNormal
       /\ (lastCall.op = "reset" /\ lastCall'.op = "addUsage" /\ ~lastCall'.threw) =>
            /\ usage'.inputTokens = lastCall'.arg.inputTokens.n
            /\ usage'.outputTokens = lastCall'.arg.outputTokens.n
            /\ usage'.totalTokens = lastCall'.arg.inputTokens.n + lastCall'.arg.outputTokens.n
            /\ usage'.cost = costLog'[1].totalCost
            /\ Len(costLog') = 1]_vars

\* a reset dropped the usage that two calls had added
C12_Witness ==
    /\ lastCall.op = "reset"
    /\ lastCall.removed >= 2
    /\ usage.cost = 0

\* C13: checkBudget() reports remaining = budget - currentCost (negative once
\* overspent) and three flags taken from currentCost / budget * 100 with
\* inclusive boundaries: shouldWarn at 70 or more, isNearLimit at 80 or more,
\* isExceeded at 100 or more.  At exactly 70% only shouldWarn is true; with
\* budget 0.50, after addUsage(1000000, 0) at the price {input 3, output 15},
\* isExceeded is true and remaining is -2.5.
C13_CheckBudgetThresholds ==
    LET r == checkBudget
        tenth == budget \div 10
    IN budget % 10 = 0 =>
        /\ r.currentCost = usage.cost
        /\ r.currentCost + r.remaining = budget
        /\ r.shouldWarn <=> usage.cost >= 7 * tenth
        /\ r.isNearLimit <=> usage.cost >= 8 * tenth
        /\ r.isExceeded <=> usage.cost >= 10 * tenth
        /\ usage.cost = 7 * tenth => r.shouldWarn /\ ~r.isNearLimit /\ ~r.isExceeded
        /\ ( /\ budget = UnitsPerDollar \div 2
             /\ lastCall.op = "addUsage"
             /\ lastCall.arg = [inputTokens |-> JsNum(1000000), outputTokens |-> JsNum(0),
                                model |-> "claude-3-5-sonnet-20241022"]
             /\ Len(costLog) = 1 )
           => /\ costLog[1].totalCost = 3 * UnitsPerDollar
              /\ r.isExceeded
              /\ r.remaining = 0 - (5 * UnitsPerDollar) \div 2

\* checkBudget() was called with the cost at exactly 70% of the budget
C13_Witness ==
    /\ lastCall.op = "checkBudget"
    /\ usage.cost > 0
    /\ usage.cost = 7 * (budget \div 10)

\* C14: getReport().status is exactly one of four labels, chosen by precedence
\* on currentCost / budget * 100: 100 or more gives 'exceeded', otherwise 80 or
\* more gives 'near-limit', otherwise 70 or more gives 'attention', otherwise
\* 'normal'.
C14_ReportStatus ==
    LET r == getReport
        tenth == budget \div 10
    IN budget % 10 = 0 =>
        /\ Cardinality({StatusNormal, StatusAttention, StatusNearLimit, StatusExceeded}) = 4
        /\ r.status = ( IF usage.cost >= 10 * tenth THEN StatusExceeded
                        ELSE IF usage.cost >= 8 * tenth THEN StatusNearLimit
                        ELSE IF usage.cost >= 7 * tenth THEN StatusAttention
                        ELSE StatusNormal )

\* getReport() was called with the budget overspent, where all three thresholds
\* are passed and the highest one decides
C14_Witness ==
    /\ lastCall.op = "getReport"
    /\ usage.cost > budget
    /\ getReport.status = StatusExceeded

\* C15: a tracker never exists with a budget of zero or less: constructing one
\* with a non-positive budget fails, so addUsage, checkBudget and getReport are
\* never evaluated against a non-positive budget.
C15_BudgetPositive == budget > 0

\* the ids the two price tables list
InPriceTable(model) == model \in DOMAIN glmPrices \cup DOMAIN claudePrices

C17_BadCountsRejected ==
    [][lastCall'.op = "addUsage" =>
        LET bad == lastCall'.arg.inputTokens \in BadTokenChoices
                   \/ lastCall'.arg.outputTokens \in BadTokenChoices
        IN /\ bad <=> lastCall'.threw
           /\ bad <=> CostThrows(lastCall'.arg.inputTokens, lastCall'.arg.outputTokens)
           /\ lastCall'.threw => usage' = usage /\ costLog' = costLog]_vars

\* addUsage was called with NaN as output count on an accumulator that already
\* held a cost, and threw
C17_Witness ==
    /\ lastCall.op = "addUsage"
    /\ lastCall.threw
    /\ lastCall.arg.outputTokens = JsNaN
    /\ usage.cost > 0

RECURSIVE TripTokens(_, _)
TripTokens(s, n) ==
    IF n = 0 THEN 0
    ELSE TripTokens(s, n - 1)
         + (IF s[n].ok THEN s[n].inputTokens + s[n].outputTokens ELSE 0)

\* C19: in the application every chat round trip that returns successfully has
\* its usage added to the app's TokenTracker, so that whenever the session waits
\* for input the tracker holds the tokens of the round trips so far, and the
\* usage in each saved session record holds the tokens consumed up to its save.
C19_UsageReflectsRoundTrips ==
    /\ appPc = "session" => usage.totalTokens = TripTokens(trips, Len(trips))
    /\ \A k \in DOMAIN saved : saved[k].usage.totalTokens = TripTokens(trips, saved[k].trips)

\* C20: the tracker accumulator is never increased for a chat call that failed
\* or is still in flight: every step that changes the accumulator is the return
\* of a successful response and adds the usage of that response.
C20_NoUsageWithoutSuccess ==
    [][usage' # usage =>
        /\ appPc = "inFlight" /\ appPc' = "session"
        /\ Len(trips') = Len(trips) + 1
        /\ trips'[Len(trips')].ok
        /\ usage'.inputTokens = usage.inputTokens + trips'[Len(trips')].inputTokens
        /\ usage'.outputTokens = usage.outputTokens + trips'[Len(trips')].outputTokens]_vars

\* a call failed after its last retry, following a call that had succeeded
C20_Witness ==
    /\ lastCall.op = "_sendMessage"
    /\ lastCall.threw
    /\ lastCall.arg = JsNum(DefaultMaxRetries)
    /\ Len(trips) = 2
    /\ trips[1].ok
    /\ usage.totalTokens = 0

\* C21: exportConversation(format) on an initialized feature returns output for
\* 'json', 'markdown' and 'text'; for any other format it fails with the
\* unsupported-format error and returns no output; in both cases the
\* conversation history is left unchanged.
C21_ExportFormats ==
    [][(lastCall'.op = "exportConversation" /\ isInitialized) =>
        LET f == lastCall'.arg.format
            r == lastCall'.arg.result
        IN /\ f \in {"json", "markdown", "text"} =>
                /\ ~r.threw /\ ~lastCall'.threw
                /\ r.output.format = f
                /\ f = "json" => r.output.history = Deref(heap, messages)
                /\ f = "markdown" => r.output.count = Len(messages)
                /\ f # "json" => Len(r.output.body.entries) = Len(messages)
           /\ f \notin {"json", "markdown", "text"} =>
                /\ r.threw /\ lastCall'.threw
                /\ r.error = "unsupported-format"
                /\ r.output = NoOutput
           /\ messages' = messages /\ heap' = heap /\ systemPrompt' = systemPrompt]_vars

\* an unsupported format was refused on an initialized feature that held a
\* question and its reply
C21_Witness ==
    /\ lastCall.op = "exportConversation"
    /\ lastCall.arg.format = "invalid_format"
    /\ lastCall.threw
    /\ isInitialized
    /\ Len(messages) = 2

\* C22: in an initialized feature session each documented export command
\* succeeds: '/export json', '/export md' and '/export text' return the
\* conversation in JSON, Markdown and plain-text format, after the
\* export-success message, and never end in an error.
C22_DocumentedExportsSucceed ==
    ( /\ lastCall.op = "handleCommand"
      /\ isInitialized
      /\ lastCall.arg.command \in {<<"/export", "json">>, <<"/export", "md">>,
                                    <<"/export", "text">>} )
    => /\ ~lastCall.threw
       /\ lastCall.arg.result.kind = "export-success"
       /\ lastCall.arg.result.exported.format =
             ( CASE lastCall.arg.command[2] = "json" -> "json"
                 [] lastCall.arg.command[2] = "md" -> "markdown"
                 [] lastCall.arg.command[2] = "text" -> "text" )

\* C23: execute({question}) on a feature whose initialize() has not been called
\* rejects with the not-initialized error, and no message is appended to a
\* conversation or sent to the API.
C23_ExecuteNeedsInitialize ==
    [][(appPc = "constructed" /\ lastCall'.op \in {"execute", "addUserMessage"}) =>
        /\ lastCall'.threw
        /\ messages' = messages
        /\ attempt' = 0]_vars

\* C24: for HistoryManager with the calls issued one after another: each
\* saveSession appends exactly one record and returns its id (the caller's id
\* when one is given, a generated one otherwise); getSessions(limit) returns at
\* most limit records, the most recently created first, and every saved record
\* when limit is at least the number saved; getSessionsByMode(m) returns exactly
\* the records whose mode is m; after clearAll, getSessions returns an empty
\* list.
C24_HistorySequential ==
    [][/\ lastCall'.op = "_writeHistory" =>
            LET c == lastCall'.ref
                rec == saveCalls'[c].record
            IN /\ historyFile' = Append(historyFile, rec)
               /\ rec.mode = saveCalls[c].session.mode
               /\ rec.id = IF saveCalls[c].session.id # ""
                           THEN GivenId(saveCalls[c].session.id) ELSE GeneratedId(c)
               /\ \A i \in 1..Len(historyFile) : ~rec.id.given => historyFile[i].id # rec.id
       /\ lastCall'.op = "saveSession" =>
            /\ lastCall'.arg = saveCalls[lastCall'.ref].record.id
            /\ historyFile' = historyFile
            /\ historyFile[Len(historyFile)] = saveCalls[lastCall'.ref].record
       /\ lastCall'.op = "getSessions" =>
            LET limit == lastCall'.arg.limit
                result == lastCall'.arg.result
                n == Len(historyFile)
                k == IF limit < n THEN limit ELSE n
            IN /\ Len(result) = k
               /\ \A i \in 1..k : result[i] = historyFile[n + 1 - i]
               /\ lastCall.op = "clearAll" => result = <<>>
       /\ lastCall'.op = "getSessionsByMode" =>
            LET result == lastCall'.arg.result
            IN /\ \A i \in 1..Len(result) : result[i].mode = lastCall'.arg.mode
               /\ Len(result) = Cardinality({i \in 1..Len(historyFile) :
                                                historyFile[i].mode = lastCall'.arg.mode})
               /\ \A i \in 1..Len(result) : \E j \in 1..Len(historyFile) :
                        result[i] = historyFile[j]]_vars

\* C29: when saveSession calls on the same history file overlap, every call
\* that returned an id has its record in the file once all calls have
\* completed; no saved record is lost to an interleaving.
C29_NoLostSave ==
    AllReturned =>
        \A c \in DOMAIN saveCalls :
            \E i \in 1..Len(historyFile) : historyFile[i] = saveCalls[c].record


(***************************************************************************)
(* ClaudeClient: retries.                                                  *)
(***************************************************************************)
ErrorCodes == {"RATE_LIMIT", "INVALID_API_KEY", "INVALID_REQUEST", "NETWORK_ERROR",
               "UNKNOWN_ERROR"}

\* an error _handleError retries: a 429, or a network error code
Retried(outcome) ==
    /\ ~outcome.ok
    /\ outcome.status = 429 \/ (outcome.status = 0 /\ outcome.code \in NetworkCodes)

\* the attempts of the call in progress are within maxRetries; every attempt
\* that was followed by another one got a retried error; a call that has ended
\* made at least one attempt and ended with the response of its last attempt
\* or with one of the five error codes
AttemptsBounded ==
    LET n == Len(client.attempts)
    IN /\ n <= client.maxRetries
       /\ client.attempt <= client.maxRetries
       /\ \A k \in 1..n :
            ~Retried(client.attempts[k]) => k = n /\ client.pc = "done"
       /\ client.pc = "done" =>
            /\ n >= 1
            /\ client.attempt = n
            /\ client.result \in {"response"} \cup ErrorCodes
            /\ client.result = "response" <=> client.attempts[n].ok

\* C25: every sendMessage call makes at least one and at most maxRetries
\* attempts and always ends, with the normalized response or with a
\* ClaudeAPIError whose code is one of RATE_LIMIT, INVALID_API_KEY,
\* INVALID_REQUEST, NETWORK_ERROR, UNKNOWN_ERROR; an attempt that failed with
\* 401, 400 or an unrecognized error is never followed by another attempt
C25_SendMessageEnds ==
    /\ []AttemptsBounded
    /\ (client.pc \in {"requesting", "sleeping"}) ~> (client.pc = "done")

\* a call with the default maxRetries that used every attempt and gave up
C25_Witness ==
    /\ client.pc = "done"
    /\ client.maxRetries = DefaultMaxRetries
    /\ Len(client.attempts) = DefaultMaxRetries
    /\ client.result = "RATE_LIMIT"

\* C26: within one sendMessage call the wait before attempt k+1 is 2^k
\* seconds, whatever the retried errors were
C26_WaitsDouble ==
    \A k \in 1..Len(client.waits) : client.waits[k] = (2 ^ k) * 1000

(***************************************************************************)
(* The stored sequence and the messages appended.                          *)
(***************************************************************************)
IsSuffix(s, t) == Len(s) <= Len(t) /\ s = SubSeq(t, Len(t) - Len(s) + 1, Len(t))

\* C27: the stored message sequence is always a contiguous suffix of the
\* messages appended since construction or the last clear(), in the order of
\* appending and with role and content as appended: every step leaves a suffix
\* of what was stored, extended by at most the message it appended, and changes
\* neither role nor content of a message that stays stored.
C27_SuffixOfAppended ==
    [][/\ \/ IsSuffix(messages', messages)
          \/ /\ nextRef' = nextRef + 1
             /\ IsSuffix(messages', Append(messages, nextRef))
       /\ \A i \in 1..Len(messages') :
            messages'[i] \in DOMAIN heap =>
                /\ heap'[messages'[i]].role = heap[messages'[i]].role
                /\ heap'[messages'[i]].content = heap[messages'[i]].content
      ]_vars

\* the stored messages alternate user, assistant, beginning with a user message
Alternates(hp, msgs) ==
    \A i \in 1..Len(msgs) :
        hp[msgs[i]].role = IF i % 2 = 1 THEN RoleUser ELSE RoleAssistant

\* C28: when _sendMessage fails because the API call throws, the history is
\* what it was before the call, the user message of the failed round trip not
\* left behind, and so the stored messages alternate user, assistant after any
\* sequence of successful and failed calls.
C28_FailedSendLeavesNoMessage ==
    [][/\ (lastCall'.op = "_sendMessage" /\ lastCall'.threw) =>
            messages' = SubSeq(messages, 1, Len(messages) - 1)
       /\ Alternates(heap', messages')
      ]_vars

(***************************************************************************)
(* The budget classifications of checkBudget() and getReport().            *)
(***************************************************************************)
\* C30: with a positive budget the classifications agree in every state:
\* isExceeded implies isNearLimit, isNearLimit implies shouldWarn, and the
\* status of getReport() in the same state is 'exceeded' exactly when
\* isExceeded, 'near-limit' exactly when isNearLimit and not isExceeded,
\* 'attention' exactly when shouldWarn and not isNearLimit, 'normal' exactly
\* when not shouldWarn.
C30_ClassificationsAgree ==
    LET c == checkBudget
        r == getReport
    IN budget > 0 =>
        /\ c.isExceeded => c.isNearLimit
        /\ c.isNearLimit => c.shouldWarn
        /\ r.status = StatusExceeded <=> c.isExceeded
        /\ r.status = StatusNearLimit <=> (c.isNearLimit /\ ~c.isExceeded)
        /\ r.status = StatusAttention <=> (c.shouldWarn /\ ~c.isNearLimit)
        /\ r.status = StatusNormal <=> ~c.shouldWarn

\* both calls made in a state between the two upper thresholds: near the limit,
\* not over it
C30_Witness ==
    /\ lastCall.op \in {"checkBudget", "getReport"}
    /\ budget > 0
    /\ checkBudget.isNearLimit
    /\ ~checkBudget.isExceeded
    /\ getReport.status = StatusNearLimit

====
